---- MODULE Spec2Model ----
(***************************************************************************)
(* State-machine model of quora_api_tools.py: the retrying request helper  *)
(* make_api_request and the five endpoint functions that marshal their     *)
(* arguments into a parameter mapping and delegate to it.                  *)
(*                                                                         *)
(* One call is modelled from its invocation to its return.  The helper is  *)
(* split at its blocking points (the network round trip, the sleep, the    *)
(* finally clause) so that the order of wait and connection release is     *)
(* visible.  conn.close() and the logging calls are taken not to raise.    *)
(***************************************************************************)
EXTENDS Integers, Sequences, FiniteSets, TLC

\* ------------------------------------------------------------------------
\* Program constants
\* ------------------------------------------------------------------------
MAX_RETRIES == 3

RETRY_DELAY == 2

API_ERROR_STATUS == 400

EXHAUSTED_STATUS == 500

RAW_DATA_LIMIT == 1000

RAW_LOG_LIMIT == 200

\* ------------------------------------------------------------------------
\* Python values
\* ------------------------------------------------------------------------
\* Python's None, as an argument or header-dictionary value.
NONE == "<None>"

\* A str holding a lone surrogate: urllib.parse.quote_plus cannot encode it.
BAD == "<lone-surrogate>"

\* Variant: only None counts as "not supplied", so an empty string is sent.
TruthyNotNone(v) == v # NONE

\* Python truthiness of an Optional[str] argument (`if cursor:`).
Truthy(v) == v # NONE /\ v # ""

\* urllib.parse.quote_plus on the strings the model uses.
QuotePlus(v) ==
    CASE v = "a b" -> "a+b"
      [] v = "https://www.quora.com/Q" -> "https%3A%2F%2Fwww.quora.com%2FQ"
      [] v = NONE -> "None"
      [] OTHER -> v

\* urlencode raises UnicodeEncodeError when a value cannot be encoded.
UrlencodeRaises(params) == \E i \in 1..Len(params) : params[i][2] = BAD

\* urllib.parse.urlencode(params): key=value pairs in dictionary order.
Urlencode(params) == [i \in 1..Len(params) |-> <<params[i][1], QuotePlus(params[i][2])>>]

\* A dictionary argument that was passed as None.
NoDict == << <<NONE, NONE>> >>

\* str.lower() on the header names the model uses.
Lower(k) ==
    CASE k = "Authorization" -> "authorization"
      [] k = "X-RapidAPI-Key" -> "x-rapidapi-key"
      [] k = "Content-Type" -> "content-type"
      [] k = "Accept" -> "accept"
      [] OTHER -> k

SensitiveNames == {"x-rapidapi-key", "authorization"}

\* The dictionary comprehension that drops sensitive headers before logging.
SanitizedHeaders(h) == SelectSeq(h, LAMBDA kv : Lower(kv[1]) \notin SensitiveNames)

\* Values of a dictionary (a sequence of <<key, value>> pairs).
Values(d) == {d[i][2] : i \in 1..Len(d)}

Keys(d) == {d[i][1] : i \in 1..Len(d)}

QUORA_API_HOST == "quora-scraper.p.rapidapi.com"

\* http.client rejects a header value holding a bare CR or LF with
\* ValueError('Invalid header value %r'), which quotes the value.
IllegalHeaderValues == {"s3cr3t<LF>"}

\* ------------------------------------------------------------------------
\* Response bodies and JSON
\* ------------------------------------------------------------------------
\* A decoded response body: its text and its length in characters.
Body(text, len) == [text |-> text, len |-> len]

\* A parsed JSON value.  A dict carries its items, a scalar its value.
Json(type, items, scalar) == [type |-> type, items |-> items, scalar |-> scalar]

Bodies ==
    { Body("", 0),
      Body("<html>", 6),
      Body("<html>...long...", 1500),
      Body("{\"message\": \"quota\"}", 20),
      Body("{\"message\": \"\"}", 15),
      Body("{\"items\": \"x\"}", 14),
      Body("[]", 2),
      Body("null", 4) }

\* json.loads raises JSONDecodeError on these texts.
JsonDecodeFails(body) == body.text \in {"<html>", "<html>...long..."}

\* json.loads(data) on the texts that parse.
JsonLoads(body) ==
    CASE body.text = "{\"message\": \"quota\"}" -> Json("dict", {<<"message", "quota">>}, "")
      [] body.text = "{\"message\": \"\"}" -> Json("dict", {<<"message", "">>}, "")
      [] body.text = "{\"items\": \"x\"}" -> Json("dict", {<<"items", "x">>}, "")
      [] body.text = "[]" -> Json("list", {}, "")
      [] OTHER -> Json("null", {}, "")

\* Only a dict has a .get method; on any other value the call raises
\* AttributeError.
HasGet(j) == j.type = "dict"

\* dict.get(key, default)
DictGet(j, key, default) ==
    IF \E kv \in j.items : kv[1] = key
    THEN (CHOOSE kv \in j.items : kv[1] = key)[2]
    ELSE default

\* data[:n] if len(data) > n else data
Truncate(body, n) == IF body.len > n THEN Body(body.text, n) ELSE body

\* Variant: every status outside 2xx is treated as an upstream error.
IsApiErrorNon2xx(status) == status >= 300

\* `if res.status >= 400`
IsApiError(status) == status >= API_ERROR_STATUS

\* ------------------------------------------------------------------------
\* Result envelopes (the dictionaries make_api_request returns)
\* ------------------------------------------------------------------------
ApiErrorEnvelope(status, response_data) ==
    [success |-> FALSE, status |-> status,
     message |-> DictGet(response_data, "message", "Unknown API error"),
     details |-> response_data]

SuccessEnvelope(status, response_data) ==
    [success |-> TRUE, status |-> status, data |-> response_data]

\* Variant: the decode failure reported without its diagnostic payload.
DecodeErrorEnvelopeNoDetails(status, body) ==
    [success |-> FALSE, status |-> status, message |-> "Failed to decode JSON response"]

DecodeErrorEnvelope(status, body) ==
    [success |-> FALSE, status |-> status,
     message |-> "Failed to decode JSON response",
     details |-> [error |-> "JSONDecodeError", raw_data |-> Truncate(body, RAW_DATA_LIMIT)]]

EmptyEnvelope(status) ==
    [success |-> FALSE, status |-> status, message |-> "Empty response from API"]

ExhaustedEnvelope(exc) ==
    [success |-> FALSE, status |-> EXHAUSTED_STATUS,
     message |-> "Request failed after " \o ToString(MAX_RETRIES) \o " attempts",
     details |-> [error |-> exc.msg]]

FallbackEnvelope ==
    [success |-> FALSE, status |-> EXHAUSTED_STATUS,
     message |-> "Unexpected error in API request"]

\* The value of a name that has not been assigned yet.
Unset == [unset |-> TRUE]

\* An exception object: its class, str(e), and the request values str(e)
\* quotes.
Exc(type, msg, contains) == [type |-> type, msg |-> msg, contains |-> contains]

\* isinstance(e, Exception) for the exception classes of the model: all of
\* them derive from Exception.
ExceptionClasses ==
    {"InvalidURL", "ConnectionRefusedError", "TimeoutError", "ValueError",
     "UnicodeDecodeError", "UnicodeEncodeError", "AttributeError", "TypeError"}

\* Variant: the endpoint handler catches only OSError and its subclasses.
EndpointCatchesOSError(exc) == exc.type \in {"ConnectionRefusedError", "TimeoutError"}

\* `except Exception as e` of the endpoint functions.
EndpointCatches(exc) == exc.type \in ExceptionClasses

\* A log record: level, the fixed part of the line, the values it embeds.
LogLine(level, text, contains) == [level |-> level, text |-> text, contains |-> contains]

\* ------------------------------------------------------------------------
\* Endpoint functions: the parameter mapping each one builds
\* ------------------------------------------------------------------------
Opt(params, key, v) == IF Truthy(v) THEN Append(params, <<key, v>>) ELSE params

search_questions(query, language, cursor, time) ==
    Opt(Opt(<< <<"query", query>>, <<"language", language>> >>, "cursor", cursor), "time", time)

search_answers(query, language, cursor, time) ==
    Opt(Opt(<< <<"query", query>>, <<"language", language>> >>, "cursor", cursor), "time", time)

search_profiles(query, language, cursor) ==
    Opt(<< <<"query", query>>, <<"language", language>> >>, "cursor", cursor)

question_answers(url, cursor, sort) ==
    Opt(Opt(<< <<"url", url>> >>, "cursor", cursor), "sort", sort)

question_comments(url, cursor) ==
    Opt(<< <<"url", url>> >>, "cursor", cursor)

EndpointNames ==
    {"search_questions", "search_answers", "search_profiles",
     "question_answers", "question_comments"}

\* Argument values the callers are drawn from.
QueryValues == {"a b", BAD}

UrlValues == {"", "https://www.quora.com/Q", BAD}

LanguageValues == {"en"}

CursorValues == {NONE, "", "abc"}

TimeValues == {NONE, "", "week"}

SortValues == {NONE, "", "recent"}

\* An endpoint's arguments, NONE for a parameter the function does not have
\* or that was not supplied.
Args(query, language, url, cursor, time, sort) ==
    [query |-> query, language |-> language, url |-> url,
     cursor |-> cursor, time |-> time, sort |-> sort]

NoArgs == Args(NONE, NONE, NONE, NONE, NONE, NONE)

\* ------------------------------------------------------------------------
\* State
\* ------------------------------------------------------------------------
VARIABLES
    QUORA_API_KEY,  \* the credential read from the environment at import
    pc,             \* position of the call
    fn,             \* the function the caller invoked
    args,           \* the endpoint's arguments
    method, endpoint, params, headers,   \* make_api_request's parameters
    query_string,   \* the encoded query, <<>> for ""
    attempt,        \* loop variable of `for attempt in range(MAX_RETRIES)`
    conn,           \* local `conn`: 0 unbound, else the attempt that bound it
    connState,      \* per attempt: "none", "new" (no socket), "open", "closed"
    e,              \* the exception being handled or propagated
    retry_wait,     \* local `retry_wait`
    result,         \* the envelope a `return` has produced, Unset before
    retFrom,        \* which return statement produced it
    hist,           \* outcome of each attempt so far
    sleeps,         \* the arguments of the time.sleep calls made
    log,            \* the log records emitted
    retval,         \* what the caller received
    raised          \* TRUE when an exception reached the caller

vars ==
    <<QUORA_API_KEY, pc, fn, args, method, endpoint, params, headers, query_string,
      attempt, conn, connState, e, retry_wait, result, retFrom, hist, sleeps, log,
      retval, raised>>

\* QUORA_HEADERS, the header dictionary the endpoints pass.
QUORA_HEADERS ==
    << <<"Content-Type", "application/json">>,
       <<"x-rapidapi-host", QUORA_API_HOST>>,
       <<"x-rapidapi-key", QUORA_API_KEY>> >>

\* The credential: the built-in default, or a key that carries the line
\* feed of the file it was read from.
KeyValues == {"xxxx"} \cup IllegalHeaderValues

Init ==
    /\ QUORA_API_KEY \in KeyValues
    /\ pc = "idle"
    /\ fn = NONE
    /\ args = NoArgs
    /\ method = NONE
    /\ endpoint = NONE
    /\ params = NoDict
    /\ headers = NoDict
    /\ query_string = <<>>
    /\ attempt = 0
    /\ conn = 0
    /\ connState = [i \in 1..MAX_RETRIES |-> "none"]
    /\ e = Unset
    /\ retry_wait = 0
    /\ result = Unset
    /\ retFrom = NONE
    /\ hist = <<>>
    /\ sleeps = <<>>
    /\ log = <<>>
    /\ retval = Unset
    /\ raised = FALSE

\* ------------------------------------------------------------------------
\* Invocation
\* ------------------------------------------------------------------------
\* An endpoint function builds its mapping and calls
\* make_api_request("GET", path, params, QUORA_HEADERS).
CallSearchQuestions ==
    \E q \in QueryValues, l \in LanguageValues, c \in CursorValues, t \in TimeValues :
        /\ pc = "idle"
        /\ fn' = "search_questions"
        /\ args' = Args(q, l, NONE, c, t, NONE)
        /\ params' = search_questions(q, l, c, t)
        /\ method' = "GET"
        /\ endpoint' = "/search_questions"
        /\ headers' = QUORA_HEADERS
        /\ pc' = "entry"
        /\ UNCHANGED <<QUORA_API_KEY, query_string, attempt, conn, connState, e, retry_wait,
                       result, retFrom, hist, sleeps, log, retval, raised>>

CallSearchAnswers ==
    \E q \in QueryValues, l \in LanguageValues, c \in CursorValues, t \in TimeValues :
        /\ pc = "idle"
        /\ fn' = "search_answers"
        /\ args' = Args(q, l, NONE, c, t, NONE)
        /\ params' = search_answers(q, l, c, t)
        /\ method' = "GET"
        /\ endpoint' = "/search_answers"
        /\ headers' = QUORA_HEADERS
        /\ pc' = "entry"
        /\ UNCHANGED <<QUORA_API_KEY, query_string, attempt, conn, connState, e, retry_wait,
                       result, retFrom, hist, sleeps, log, retval, raised>>

CallSearchProfiles ==
    \E q \in QueryValues, l \in LanguageValues, c \in CursorValues :
        /\ pc = "idle"
        /\ fn' = "search_profiles"
        /\ args' = Args(q, l, NONE, c, NONE, NONE)
        /\ params' = search_profiles(q, l, c)
        /\ method' = "GET"
        /\ endpoint' = "/search_profiles"
        /\ headers' = QUORA_HEADERS
        /\ pc' = "entry"
        /\ UNCHANGED <<QUORA_API_KEY, query_string, attempt, conn, connState, e, retry_wait,
                       result, retFrom, hist, sleeps, log, retval, raised>>

CallQuestionAnswers ==
    \E u \in UrlValues, c \in CursorValues, s \in SortValues :
        /\ pc = "idle"
        /\ fn' = "question_answers"
        /\ args' = Args(NONE, NONE, u, c, NONE, s)
        /\ params' = question_answers(u, c, s)
        /\ method' = "GET"
        /\ endpoint' = "/question_answers"
        /\ headers' = QUORA_HEADERS
        /\ pc' = "entry"
        /\ UNCHANGED <<QUORA_API_KEY, query_string, attempt, conn, connState, e, retry_wait,
                       result, retFrom, hist, sleeps, log, retval, raised>>

CallQuestionComments ==
    \E u \in UrlValues, c \in CursorValues :
        /\ pc = "idle"
        /\ fn' = "question_comments"
        /\ args' = Args(NONE, NONE, u, c, NONE, NONE)
        /\ params' = question_comments(u, c)
        /\ method' = "GET"
        /\ endpoint' = "/question_comments"
        /\ headers' = QUORA_HEADERS
        /\ pc' = "entry"
        /\ UNCHANGED <<QUORA_API_KEY, query_string, attempt, conn, connState, e, retry_wait,
                       result, retFrom, hist, sleeps, log, retval, raised>>

\* Header dictionaries and parameter mappings of a direct call.
DirectHeaders ==
    { NoDict,
      << <<"Authorization", "Bearer t0k">>, <<"Accept", "application/json">> >>,
      << <<"X-RapidAPI-Key", "s3cr3t<LF>">>, <<"Accept", "application/json">> >> }

DirectParams == { NoDict, << <<"query", "a b">> >>, << <<"query", BAD>> >> }

\* make_api_request called directly, with any method, params and headers.
CallMakeApiRequest ==
    \E m \in {"GET", "POST"}, p \in DirectParams, h \in DirectHeaders :
        /\ pc = "idle"
        /\ fn' = "make_api_request"
        /\ method' = m
        /\ endpoint' = "/search_questions"
        /\ params' = p
        /\ headers' = h
        /\ pc' = "entry"
        /\ UNCHANGED <<QUORA_API_KEY, args, query_string, attempt, conn, connState, e,
                       retry_wait, result, retFrom, hist, sleeps, log, retval, raised>>

\* ------------------------------------------------------------------------
\* make_api_request
\* ------------------------------------------------------------------------
\* `if headers is None: headers = {...}`
DefaultHeaders(h) == IF h = NoDict THEN QUORA_HEADERS ELSE h

\* `if params and method == "GET"`
HasQuery(p, m) == p # NoDict /\ p # <<>> /\ m = "GET"

\* Everything up to the loop: default headers, query string, request log.
Entry ==
    /\ pc = "entry"
    /\ headers' = DefaultHeaders(headers)
    /\ IF HasQuery(params, method) /\ UrlencodeRaises(params)
       THEN /\ e' = Exc("UnicodeEncodeError", "surrogates not allowed", {})
            /\ pc' = "propagate"
            /\ UNCHANGED <<query_string, log>>
       ELSE /\ query_string' = IF HasQuery(params, method) THEN Urlencode(params) ELSE <<>>
            /\ log' = log \o
                 << LogLine("INFO", "API Request", Values(query_string')),
                    LogLine("DEBUG", "Headers", Values(SanitizedHeaders(headers'))) >> \o
                 (IF HasQuery(params, method)
                  THEN << LogLine("DEBUG", "Params", Values(params)) >>
                  ELSE << >>)
            /\ pc' = "try"
            /\ UNCHANGED e
    /\ attempt' = 0
    /\ UNCHANGED <<QUORA_API_KEY, fn, args, method, endpoint, params, conn, connState,
                   retry_wait, result, retFrom, hist, sleeps, retval, raised>>

\* What an attempt left behind: an exception raised at some stage, or a
\* response with its status and decoded body.
Outcome(kind, stage, status, body) ==
    [kind |-> kind, stage |-> stage, status |-> status, body |-> body]

NoBody == Body("<none>", 0)

\* conn.request refuses a header value that holds a bare line break.
HasIllegalHeader(h) == \E i \in 1..Len(h) : h[i][2] \in IllegalHeaderValues

IllegalHeaderValue(h) == h[CHOOSE i \in 1..Len(h) : h[i][2] \in IllegalHeaderValues][2]

\* An exception leaves the try body for the handler.
RaiseInAttempt(exc, stage, status, body, lines) ==
    /\ e' = exc
    /\ hist' = Append(hist, Outcome(IF stage = "get" THEN "response" ELSE "exception",
                                    stage, status, body))
    /\ log' = log \o lines
    /\ pc' = "except"
    /\ UNCHANGED <<result, retFrom>>

\* A return statement of the try body: the finally clause runs next.
ReturnInAttempt(env, from, status, body, lines) ==
    /\ result' = env
    /\ retFrom' = from
    /\ hist' = Append(hist, Outcome("response", "parsed", status, body))
    /\ log' = log \o lines
    /\ pc' = "finally"
    /\ UNCHANGED e

\* http.client.HTTPSConnection(...) raises: `conn` is not rebound.
ConstructorRaises ==
    /\ pc = "try"
    /\ RaiseInAttempt(Exc("InvalidURL", "nonnumeric port", {}), "construct", 0, NoBody, <<>>)
    /\ UNCHANGED <<QUORA_API_KEY, fn, args, method, endpoint, params, headers, query_string,
                   attempt, conn, connState, retry_wait, sleeps, retval, raised>>

\* conn.request raises: on a header value it refuses, when the connection
\* cannot be established (no socket), or while sending (socket open).
RequestRaises ==
    /\ pc = "try"
    /\ conn' = attempt + 1
    /\ \/ /\ HasIllegalHeader(headers)
          /\ connState' = [connState EXCEPT ![attempt + 1] = "new"]
          /\ RaiseInAttempt(Exc("ValueError", "Invalid header value",
                                {IllegalHeaderValue(headers)}),
                            "request", 0, NoBody, <<>>)
       \/ /\ ~HasIllegalHeader(headers)
          /\ connState' = [connState EXCEPT ![attempt + 1] = "new"]
          /\ RaiseInAttempt(Exc("ConnectionRefusedError", "Connection refused", {}),
                            "request", 0, NoBody, <<>>)
       \/ /\ ~HasIllegalHeader(headers)
          /\ connState' = [connState EXCEPT ![attempt + 1] = "open"]
          /\ RaiseInAttempt(Exc("TimeoutError", "The write operation timed out", {}),
                            "request", 0, NoBody, <<>>)
    /\ UNCHANGED <<QUORA_API_KEY, fn, args, method, endpoint, params, headers, query_string,
                   attempt, retry_wait, sleeps, retval, raised>>

\* conn.getresponse() times out, or res.read().decode("utf-8") fails: the
\* socket is open.
ResponseRaises ==
    /\ pc = "try"
    /\ ~HasIllegalHeader(headers)
    /\ conn' = attempt + 1
    /\ connState' = [connState EXCEPT ![attempt + 1] = "open"]
    /\ \/ RaiseInAttempt(Exc("TimeoutError", "The read operation timed out", {}),
                         "getresponse", 0, NoBody, <<>>)
       \/ RaiseInAttempt(Exc("UnicodeDecodeError", "invalid start byte", {}),
                         "decode", 0, NoBody, <<>>)
    /\ UNCHANGED <<QUORA_API_KEY, fn, args, method, endpoint, params, headers, query_string,
                   attempt, retry_wait, sleeps, retval, raised>>

Statuses == {200, 399, 400}

\* The round trip completes with a status and a body, which is classified.
ResponseReceived ==
    /\ pc = "try"
    /\ ~HasIllegalHeader(headers)
    /\ conn' = attempt + 1
    /\ connState' = [connState EXCEPT ![attempt + 1] = "open"]
    /\ \E status \in Statuses, data \in Bodies :
         LET qs == Values(query_string)
             received == << LogLine("INFO", "API Response", qs) >>
         IN  IF data.len = 0
             THEN ReturnInAttempt(EmptyEnvelope(status), "empty", status, data,
                      received \o << LogLine("WARNING", "Empty response", qs) >>)
             ELSE IF JsonDecodeFails(data)
             THEN ReturnInAttempt(DecodeErrorEnvelope(status, data), "decode", status, data,
                      received \o
                      << LogLine("ERROR", "JSON Decode Error", qs),
                         LogLine("ERROR", "Raw response", {Truncate(data, RAW_LOG_LIMIT).text}) >>)
             ELSE LET response_data == JsonLoads(data)
                      keys == IF response_data.type = "dict"
                              THEN << LogLine("DEBUG", "Response keys",
                                              {kv[1] : kv \in response_data.items}) >>
                              ELSE << >>
                  IN  IF IsApiError(status)
                      THEN IF HasGet(response_data)
                           THEN ReturnInAttempt(ApiErrorEnvelope(status, response_data),
                                    "api_error", status, data,
                                    received \o keys \o
                                    << LogLine("ERROR", "API Error",
                                         qs \cup {DictGet(response_data, "message",
                                                          "Unknown API error")}) >>)
                           ELSE RaiseInAttempt(
                                    Exc("AttributeError", "object has no attribute 'get'", {}),
                                    "get", status, data, received \o keys)
                      ELSE ReturnInAttempt(SuccessEnvelope(status, response_data),
                               "success", status, data, received \o keys)
    /\ UNCHANGED <<QUORA_API_KEY, fn, args, method, endpoint, params, headers, query_string,
                   attempt, retry_wait, sleeps, retval, raised>>

\* Variant: the retry test is off by one and lets the last attempt retry.
ShouldRetryOffByOne(a) == a < MAX_RETRIES

\* `if attempt < MAX_RETRIES - 1`
ShouldRetry(a) == a < MAX_RETRIES - 1

\* Variant: the wait is computed from the zero-based loop variable.
RetryWaitZeroBased(a) == RETRY_DELAY * a

\* `retry_wait = RETRY_DELAY * (attempt + 1)`
RetryWait(a) == RETRY_DELAY * (a + 1)

\* The handler of the retry loop, up to the sleep or the return.
Except ==
    /\ pc = "except"
    /\ LET errors == << LogLine("ERROR", "Request Error", Values(query_string) \cup e.contains),
                        LogLine("ERROR", "Traceback", e.contains) >>
       IN  IF ShouldRetry(attempt)
           THEN /\ retry_wait' = RetryWait(attempt)
                /\ log' = log \o errors \o << LogLine("INFO", "Retrying", {}) >>
                /\ pc' = "sleep"
                /\ UNCHANGED <<result, retFrom>>
           ELSE /\ result' = ExhaustedEnvelope(e)
                /\ retFrom' = "exhausted"
                /\ log' = log \o errors
                /\ pc' = "finally"
                /\ UNCHANGED retry_wait
    /\ UNCHANGED <<QUORA_API_KEY, fn, args, method, endpoint, params, headers, query_string,
                   attempt, conn, connState, e, hist, sleeps, retval, raised>>

\* time.sleep(retry_wait), inside the handler.
Sleep ==
    /\ pc = "sleep"
    /\ sleeps' = Append(sleeps, retry_wait)
    /\ pc' = "finally"
    /\ UNCHANGED <<QUORA_API_KEY, fn, args, method, endpoint, params, headers, query_string,
                   attempt, conn, connState, e, retry_wait, result, retFrom, hist, log,
                   retval, raised>>

\* Variant: the finally clause does not close the connection.
CloseConnSkipped(cs, c) == cs

\* `if 'conn' in locals(): conn.close()`
CloseConn(cs, c) == IF c # 0 THEN [cs EXCEPT ![c] = "closed"] ELSE cs

\* The finally clause, then what follows it: the pending return, the next
\* iteration, or the statement after the loop.
Finally ==
    /\ pc = "finally"
    /\ connState' = CloseConn(connState, conn)
    /\ IF result # Unset
       THEN /\ pc' = "returned"
            /\ UNCHANGED <<attempt, result, retFrom>>
       ELSE IF attempt + 1 < MAX_RETRIES
       THEN /\ attempt' = attempt + 1
            /\ pc' = "try"
            /\ UNCHANGED <<result, retFrom>>
       ELSE /\ result' = FallbackEnvelope
            /\ retFrom' = "fallback"
            /\ pc' = "returned"
            /\ UNCHANGED attempt
    /\ UNCHANGED <<QUORA_API_KEY, fn, args, method, endpoint, params, headers, query_string,
                   conn, e, retry_wait, hist, sleeps, log, retval, raised>>

\* ------------------------------------------------------------------------
\* Back in the caller
\* ------------------------------------------------------------------------
\* make_api_request returned: an endpoint returns the envelope unchanged.
Finish ==
    /\ pc = "returned"
    /\ retval' = result
    /\ pc' = "done"
    /\ UNCHANGED <<QUORA_API_KEY, fn, args, method, endpoint, params, headers, query_string,
                   attempt, conn, connState, e, retry_wait, result, retFrom, hist, sleeps,
                   log, raised>>

\* The ad-hoc object of an endpoint's handler.
AdHocError(exc) == [error |-> exc.msg, exception_type |-> exc.type]

\* make_api_request raised: an endpoint's `except Exception` logs and
\* returns the ad-hoc object; a direct caller receives the exception.
Unwind ==
    /\ pc = "propagate"
    /\ IF fn \in EndpointNames /\ EndpointCatches(e)
       THEN /\ retval' = AdHocError(e)
            /\ log' = Append(log, LogLine("ERROR", "Error in tool", e.contains))
            /\ UNCHANGED raised
       ELSE /\ raised' = TRUE
            /\ UNCHANGED <<retval, log>>
    /\ pc' = "done"
    /\ UNCHANGED <<QUORA_API_KEY, fn, args, method, endpoint, params, headers, query_string,
                   attempt, conn, connState, e, retry_wait, result, retFrom, hist, sleeps>>

Next ==
    \/ CallSearchQuestions
    \/ CallSearchAnswers
    \/ CallSearchProfiles
    \/ CallQuestionAnswers
    \/ CallQuestionComments
    \/ CallMakeApiRequest
    \/ Entry
    \/ ConstructorRaises
    \/ RequestRaises
    \/ ResponseRaises
    \/ ResponseReceived
    \/ Except
    \/ Sleep
    \/ Finally
    \/ Finish
    \/ Unwind

Spec == Init /\ [][Next]_vars

TypeOK ==
    /\ pc \in {"idle", "entry", "try", "except", "sleep", "finally", "returned",
               "propagate", "done"}
    /\ attempt \in 0..(MAX_RETRIES - 1)
    /\ conn \in 0..MAX_RETRIES
    /\ Len(hist) <= MAX_RETRIES

\* The same machine under weak fairness: a call that can take a step takes
\* it (every blocking call is bounded by the 30 s timeout or the sleep).
FairSpec == Init /\ [][Next]_vars /\ WF_vars(Next)

\* ------------------------------------------------------------------------
\* Properties
\* ------------------------------------------------------------------------
\* make_api_request has returned an envelope.
HasReturned == pc \in {"returned", "done"} /\ result # Unset

Last(h) == h[Len(h)]

\* The attempts made so far all ended in an exception raised while
\* connecting, sending or receiving.
AllTransportFailures == \A i \in 1..Len(hist) : hist[i].kind = "exception"

\* The body of an outcome is non-empty and parses as JSON.
ParsesAsJson(o) == o.kind = "response" /\ o.body.len > 0 /\ ~JsonDecodeFails(o.body)

OpenConns == {i \in 1..MAX_RETRIES : connState[i] = "open"}

\* C1: when every attempt ends in a transport exception, exactly 3 attempts
\* are made, the wait before retry k is 2*k seconds (2 then 4, none after
\* attempt 3), and the call returns a failure envelope with status 500 whose
\* message names 3 attempts.
C1_RetrySchedule ==
    AllTransportFailures =>
        /\ Len(sleeps) <= 2
        /\ \A k \in 1..Len(sleeps) : sleeps[k] = 2 * k
        /\ (pc = "try" => Len(sleeps) = Len(hist))
        /\ (HasReturned =>
               /\ Len(hist) = 3
               /\ sleeps = <<2, 4>>
               /\ result.success = FALSE
               /\ result.status = 500
               /\ result.message = "Request failed after 3 attempts")

C1_Witness ==
    /\ pc = "done"
    /\ Len(hist) = 3
    /\ AllTransportFailures
    /\ sleeps = <<2, 4>>
    /\ retval.status = 500

\* C2: an attempt on which a response was received (empty body, malformed
\* JSON, or valid JSON of any type with status >= 400) is the last attempt:
\* it is followed by no handler, no wait and no further attempt, and the
\* envelope returned is a failure carrying that attempt's upstream status.
C2_ResponsesNotRetried ==
    \A i \in 1..Len(hist) :
        (/\ hist[i].kind = "response"
         /\ \/ hist[i].body.len = 0
            \/ JsonDecodeFails(hist[i].body)
            \/ hist[i].status >= 400)
        => /\ i = Len(hist)
           /\ pc \notin {"except", "sleep", "try"}
           /\ (HasReturned => result.success = FALSE /\ result.status = hist[i].status)

\* C3 as stated: a success envelope has data and neither message nor
\* details; a failure envelope has both message and details and no data.
C3_EnvelopeShape ==
    HasReturned =>
        IF result.success
        THEN "data" \in DOMAIN result /\ "message" \notin DOMAIN result
             /\ "details" \notin DOMAIN result
        ELSE "message" \in DOMAIN result /\ "details" \in DOMAIN result
             /\ "data" \notin DOMAIN result

\* C3 amended: a success envelope has data and neither message nor details;
\* a failure envelope has message and no data, and it has details except
\* when it reports an empty response body, which carries none.
C3_EnvelopeShapeAmended ==
    HasReturned =>
        IF result.success
        THEN "data" \in DOMAIN result /\ "message" \notin DOMAIN result
             /\ "details" \notin DOMAIN result
        ELSE /\ "message" \in DOMAIN result
             /\ "data" \notin DOMAIN result
             /\ ("details" \notin DOMAIN result
                   <=> (Last(hist).kind = "response" /\ Last(hist).body.len = 0))

C3_Witness ==
    /\ pc = "done"
    /\ Len(hist) = 2
    /\ Last(hist).kind = "response"
    /\ Last(hist).body.len = 0
    /\ retval.success = FALSE
    /\ DOMAIN retval = {"success", "status", "message"}

\* C4: for a response with status >= 400 whose non-empty body parses as
\* JSON, the envelope returned is a failure with the upstream status, the
\* body's message field (else 'Unknown API error') and the parsed body as
\* details.
C4_ApiErrorEnvelope ==
    (HasReturned /\ ParsesAsJson(Last(hist)) /\ Last(hist).status >= 400) =>
        LET parsed == JsonLoads(Last(hist).body)
        IN  result = [success |-> FALSE,
                      status |-> Last(hist).status,
                      message |-> IF \E kv \in parsed.items : kv[1] = "message"
                                  THEN (CHOOSE kv \in parsed.items : kv[1] = "message")[2]
                                  ELSE "Unknown API error",
                      details |-> parsed]

\* C5: a response with status < 400 whose non-empty body parses as JSON,
\* on whichever attempt it arrives, ends the call with a success envelope
\* holding the upstream status and the parsed body.
C5_SuccessEnvelope ==
    (Len(hist) >= 1 /\ ParsesAsJson(Last(hist)) /\ Last(hist).status < 400) =>
        /\ pc \in {"finally", "returned", "done"}
        /\ result = [success |-> TRUE,
                     status |-> Last(hist).status,
                     data |-> JsonLoads(Last(hist).body)]

C5_Witness ==
    /\ pc = "done"
    /\ Len(hist) = 3
    /\ hist[1].kind = "exception"
    /\ hist[2].kind = "exception"
    /\ Last(hist).status = 399
    /\ retval.success = TRUE
    /\ retval.data.type = "list"

\* C6 as stated: no connection is open while the function waits before a
\* retry, nor after it has returned.
C6_ReleasedBeforeWait == pc \in {"sleep", "returned", "done"} => OpenConns = {}

\* C6 amended: the connection of an attempt is released before the function
\* returns and before the next attempt begins, whatever the outcome; the
\* release follows the backoff wait, so only the failed attempt's
\* connection can be open during the wait.
C6_ReleasedBeforeNextAttempt ==
    /\ pc \in {"try", "returned", "done"} =>
          \A i \in 1..MAX_RETRIES : connState[i] \in {"none", "closed"}
    /\ \A i \in 1..MAX_RETRIES : i < Len(hist) => connState[i] \in {"none", "closed"}
    /\ pc = "sleep" => OpenConns \subseteq {attempt + 1}

C6_Witness ==
    /\ pc = "try"
    /\ attempt = 1
    /\ sleeps = <<2>>
    /\ connState[1] = "closed"

\* What an endpoint hands back when it is done: a value of one of the two
\* shapes, and no exception.
ReturnedValue ==
    (pc = "done" /\ fn \in EndpointNames) =>
        /\ ~raised
        /\ \/ {"success", "status"} \subseteq DOMAIN retval
           \/ DOMAIN retval = {"error", "exception_type"}

\* C7: every invocation of an endpoint function ends, and it ends by
\* returning a Result Envelope or the object {error, exception_type}; no
\* exception reaches its caller.
C7_EndpointReturns ==
    /\ []ReturnedValue
    /\ (pc = "entry" /\ fn \in EndpointNames) ~> (pc = "done" /\ ~raised)

C7_Witness ==
    /\ pc = "done"
    /\ fn \in EndpointNames
    /\ DOMAIN retval = {"error", "exception_type"}
    /\ retval.exception_type = "UnicodeEncodeError"

\* The parameters of each endpoint, in declaration order.
Required(f) ==
    IF f \in {"question_answers", "question_comments"}
    THEN <<"url">>
    ELSE <<"query", "language">>

Optional(f) ==
    CASE f \in {"search_questions", "search_answers"} -> <<"cursor", "time">>
      [] f = "question_answers" -> <<"cursor", "sort">>
      [] OTHER -> <<"cursor">>

\* The mapping of the required parameters followed by the optional ones
\* that pass the test Sent.
Mapping(f, a, Sent(_)) ==
    LET pair(k) == <<k, a[k]>>
        req == [i \in 1..Len(Required(f)) |-> pair(Required(f)[i])]
        opt == SelectSeq(Optional(f), LAMBDA k : Sent(a[k]))
    IN  req \o [i \in 1..Len(opt) |-> pair(opt[i])]

Supplied(v) == v # NONE

SuppliedNonEmpty(v) == v # NONE /\ v # ""

\* C8 as stated: the mapping holds the required parameters followed by
\* every optional parameter that was supplied, in declaration order, with
\* no null value.
C8_ParamsMapping ==
    fn \in EndpointNames =>
        /\ params = Mapping(fn, args, Supplied)
        /\ NONE \notin Values(params)

\* C8 amended: the mapping holds the required parameters followed by the
\* optional parameters supplied with a non-empty value, in declaration
\* order, with no null value; an optional parameter that was not supplied,
\* or supplied as the empty string, has no key.
C8_ParamsMappingAmended ==
    fn \in EndpointNames =>
        /\ params = Mapping(fn, args, SuppliedNonEmpty)
        /\ NONE \notin Values(params)
        /\ \A i \in 1..Len(Optional(fn)) :
               args[Optional(fn)[i]] \in {NONE, ""} => Optional(fn)[i] \notin Keys(params)

C8_Witness ==
    /\ fn = "search_questions"
    /\ args.cursor = ""
    /\ args.time = "week"
    /\ params = << <<"query", "a b">>, <<"language", "en">>, <<"time", "week">> >>
    /\ query_string = << <<"query", "a+b">>, <<"language", "en">>, <<"time", "week">> >>

\* C9: no log record contains the value of a header whose lower-cased name
\* is x-rapidapi-key or authorization.
C9_NoSecretLogged ==
    \A i \in 1..Len(log) : \A j \in 1..Len(headers) :
        Lower(headers[j][1]) \in SensitiveNames => headers[j][2] \notin log[i].contains

\* C10: every envelope is returned from inside the loop, on attempt 1, 2 or
\* 3; the return after the loop is never taken.
C10_FallbackUnreachable ==
    /\ retFrom # "fallback"
    /\ HasReturned =>
          /\ retFrom \in {"empty", "decode", "api_error", "success", "exhausted"}
          /\ Len(hist) \in 1..3
          /\ Len(hist) = attempt + 1

C10_Witness ==
    /\ pc = "done"
    /\ retFrom = "exhausted"
    /\ Len(hist) = 3
    /\ hist[3].kind = "response"

====
